---------------------------- MODULE Spec2Model ----------------------------
(***************************************************************************)
(* A model of the coffeeshop test server (package coffeeshop):             *)
(*   - the in-memory product store and its read lock (MemoryStore),        *)
(*   - server construction (latencyFromEnv, WithLatency, New),             *)
(*   - the request pipeline built by Server.ListenAndServe:                *)
(*       Timeout(120s) -> SetHeader(Content-Type) -> Delay -> router ->    *)
(*       Server.GetProducts / Server.GetProduct / the router's defaults,   *)
(*   - the transport's write deadline (http.Server.WriteTimeout).          *)
(*                                                                         *)
(* Two specifications are given.  Spec is the server: construction, then   *)
(* requests running through the pipeline concurrently.  SpecStore is the   *)
(* store alone: concurrent tasks calling GetAll and GetProduct, with the   *)
(* RWMutex steps made visible.                                             *)
(*                                                                         *)
(* Time is counted in milliseconds, per request, from the moment the       *)
(* server has read the request's header (which is when net/http arms the   *)
(* write deadline and, immediately after, the Timeout middleware arms its  *)
(* context deadline).                                                      *)
(***************************************************************************)
EXTENDS Integers, Sequences, FiniteSets, TLC

VARIABLES
    env,        \* os environment: the value of COFFEESHOP_LATENCY, or Unset
    options,    \* the option list handed to New: latency expressions of WithLatency
    phase,      \* "start" | "constructed" | "serving" | "panicked"
    srv,        \* the Server struct built by New
    delay,      \* the duration captured by Delay(cs.Latency) in ListenAndServe
    req,        \* the requests in flight, one record per connection
    Products,   \* MemoryStore.Products
    mx,         \* MemoryStore.mx: the RWMutex
    task        \* SpecStore: the tasks calling the store directly

vars == <<env, options, phase, srv, delay, req, Products, mx, task>>

-----------------------------------------------------------------------------
(* Bounds of the model.                                                    *)

\* Number of requests that may be in flight at the same time.
NumRequests == 2

\* Number of tasks that call the store concurrently (SpecStore).
NumTasks == 2

\* time.Sleep(d) pauses for at least d: the overrun, in ms, is 0..MaxOverrun.
MaxOverrun == 1

Requests == 1..NumRequests
Tasks == 1..NumTasks

-----------------------------------------------------------------------------
(* Program constants, in milliseconds.                                     *)

WriteTimeout == 30000

TimeoutGuard == 120000

StatusOK == 200

StatusNotFound == 404

StatusMethodNotAllowed == 405

StatusInternalServerError == 500

StatusGatewayTimeout == 504

DefaultLatency == <<"1", "0", "0", "m", "s">>

JSONContentType == "application/json; charset=utf-8"

TextContentType == "text/plain; charset=utf-8"

-----------------------------------------------------------------------------
(* The seed inventory.                                                     *)

Property(n, v) == [Name |-> n, Value |-> v]

Product(id, type, brand, name, unit, quantity, price, properties) ==
    [ID |-> id, Type |-> type, Brand |-> brand, Name |-> name, Unit |-> unit,
     Quantity |-> quantity, Price |-> price, Properties |-> properties]

\* The zero value Product{} returned beside an error.
ZeroProduct == Product("", "", "", "", "", "", "", <<>>)

inventory ==
    [id \in {"1", "2", "3", "4", "5", "6"} |->
       CASE id = "1" ->
              Product("1", "Coffee", "Segafredo", "Intermezzo", "gram", "1000", "7.99",
                <<Property("flavour", "Acidic Robusta, Nuts, Aromatic Arabica, Caramel, Medium roasted beans"),
                  Property("property", "1000 grams, Arabica/Robusta"),
                  Property("intensity", "")>>)
         [] id = "2" ->
              Product("2", "Coffee", "Segafredo", "Caffe Crema Gustoso", "gram", "1000", "11.99",
                <<Property("flavour", "Acidic Robusta, Nuts, Aromatic Arabica, Medium roasted beans"),
                  Property("property", "1000 grams, Arabica/Robusta"),
                  Property("intensity", "Medium (6/10)")>>)
         [] id = "3" ->
              Product("3", "Coffee", "Segafredo", "Selezione Espresso", "gram", "1000", "10.49",
                <<Property("flavour", "Dark Chocolate, Acidic Robusta, Dark roasted beans, Aromatic Arabica"),
                  Property("property", "1000 grams, Arabica/Robusta")>>)
         [] id = "4" ->
              Product("4", "Coffee", "illy", "Intenso", "gram", "250", "7.99",
                <<Property("flavour", "Fruit, Chocolate, Dark roasted beans, Bitterness"),
                  Property("property", "250 grams, Arabica"),
                  Property("intensity", "Very strong (9/10)")>>)
         [] id = "5" ->
              Product("5", "Coffee", "illy", "Guatemala", "gram", "250", "7.99",
                <<Property("flavour", "Honey, Caramel, Sweetness"),
                  Property("property", "250 gram, Arabica"),
                  Property("intensity", "Medium (6/10)")>>)
         [] id = "6" ->
              Product("6", "Coffee", "Lavazza", "Espresso Barista Perfetto", "gram", "1000", "12.99",
                <<Property("flavour", "Aromatic Arabica, Medium roasted beans"),
                  Property("property", "250 gram, Arabica"),
                  Property("intensity", "Medium (6/10)")>>)]

-----------------------------------------------------------------------------
(* MemoryStore: the pure part of its two queries.                          *)

\* The elements of the finite set S, listed in some fixed order.
RECURSIVE SetToSeq(_)
SetToSeq(S) ==
    IF S = {} THEN <<>>
    ELSE LET x == CHOOSE y \in S : TRUE IN <<x>> \o SetToSeq(S \ {x})

\* The orders in which the runtime may iterate the map m, which the
\* language leaves unspecified: every permutation of the keys.
IterationOrders(m) == Permutations(DOMAIN m)

\* maps.Values(m) when the runtime iterates the keys in order pi: one value
\* per key.
Values(m, pi) ==
    LET ks == SetToSeq(DOMAIN m)
    IN  [i \in 1..Len(ks) |-> m[pi[ks[i]]]]

\* A lookup that normalises the identifier first (drops a leading zero or a
\* trailing blank): not what the code does.
LookupNormalised(m, id) ==
    LET key == CASE id = "01" -> "1" [] id = "1 " -> "1" [] OTHER -> id
    IN  IF key \in DOMAIN m THEN [p |-> m[key], ok |-> TRUE]
        ELSE [p |-> ZeroProduct, ok |-> FALSE]

\* ms.Products[id]: the comma-ok lookup, by exact key equality.
Lookup(m, id) ==
    IF id \in DOMAIN m THEN [p |-> m[id], ok |-> TRUE]
    ELSE [p |-> ZeroProduct, ok |-> FALSE]

\* A GetAll that loses the last value: not what the code does.
GetAllBodyShort(m, pi) == SubSeq(Values(m, pi), 1, Len(Values(m, pi)) - 1)

\* The body of MemoryStore.GetAll between RLock and RUnlock, for iteration
\* order pi.
GetAllBody(m, pi) == Values(m, pi)

ErrNone == "nil"

ErrProductNotFound == "product not found"

\* A GetProduct that returns no error for a missing key: not what the code
\* does.
GetProductBodyNoError(m, id) == [p |-> Lookup(m, id).p, err |-> "nil"]

\* The body of MemoryStore.GetProduct between RLock and RUnlock.
GetProductBody(m, id) ==
    LET l == Lookup(m, id)
    IN  IF ~l.ok THEN [p |-> ZeroProduct, err |-> ErrProductNotFound]
        ELSE [p |-> l.p, err |-> ErrNone]

-----------------------------------------------------------------------------
(* time.ParseDuration.  A latency expression is a sequence of characters;  *)
(* a Duration is a number of milliseconds (the units "ns", "us" are        *)
(* accepted and contribute 0: they are below the model's resolution).      *)

Digits == {"0", "1", "2", "3", "4", "5", "6", "7", "8", "9"}

DigitValue(c) ==
    CASE c = "0" -> 0 [] c = "1" -> 1 [] c = "2" -> 2 [] c = "3" -> 3
      [] c = "4" -> 4 [] c = "5" -> 5 [] c = "6" -> 6 [] c = "7" -> 7
      [] c = "8" -> 8 [] c = "9" -> 9

\* unitMap: the milliseconds in one unit, or -1 for an unknown unit.
unitMap(u) ==
    CASE u = <<"n", "s">> -> 0
      [] u = <<"u", "s">> -> 0
      [] u = <<"m", "s">> -> 1
      [] u = <<"s">> -> 1000
      [] u = <<"m">> -> 60000
      [] u = <<"h">> -> 3600000
      [] OTHER -> -1

\* leadingInt: consumes the leading digits of s.
RECURSIVE leadingInt(_, _)
leadingInt(s, x) ==
    IF s # <<>> /\ Head(s) \in Digits
    THEN leadingInt(Tail(s), x * 10 + DigitValue(Head(s)))
    ELSE [x |-> x, rem |-> s]

\* leadingFraction: consumes the digits after the point; scale is 10^digits.
RECURSIVE leadingFraction(_, _, _)
leadingFraction(s, f, scale) ==
    IF s # <<>> /\ Head(s) \in Digits
    THEN leadingFraction(Tail(s), f * 10 + DigitValue(Head(s)), scale * 10)
    ELSE [f |-> f, scale |-> scale, rem |-> s]

\* The length of the unit: the characters up to the next point or digit.
RECURSIVE unitLen(_)
unitLen(s) ==
    IF s = <<>> \/ Head(s) \in Digits \/ Head(s) = "." THEN 0
    ELSE 1 + unitLen(Tail(s))

ParseError == [d |-> 0, ok |-> FALSE]

\* The loop of ParseDuration: one <number><unit> group per round.
RECURSIVE parseGroups(_, _)
parseGroups(s, d) ==
    IF s = <<>> THEN [d |-> d, ok |-> TRUE]
    ELSE IF ~(Head(s) \in Digits \/ Head(s) = ".") THEN ParseError
    ELSE
      LET li   == leadingInt(s, 0)
          pre  == Len(li.rem) # Len(s)
          dot  == li.rem # <<>> /\ Head(li.rem) = "."
          lf   == IF dot THEN leadingFraction(Tail(li.rem), 0, 1)
                  ELSE [f |-> 0, scale |-> 1, rem |-> li.rem]
          post == dot /\ Len(lf.rem) # Len(li.rem) - 1
          n    == unitLen(lf.rem)
          unit == unitMap(SubSeq(lf.rem, 1, n))
      IN  IF ~pre /\ ~post THEN ParseError
          ELSE IF n = 0 THEN ParseError
          ELSE IF unit < 0 THEN ParseError
          ELSE parseGroups(SubSeq(lf.rem, n + 1, Len(lf.rem)),
                           d + li.x * unit + (lf.f * unit) \div lf.scale)

ParseDuration(str) ==
    LET signed == str # <<>> /\ Head(str) \in {"-", "+"}
        neg    == signed /\ Head(str) = "-"
        s      == IF signed THEN Tail(str) ELSE str
    IN  IF s = <<"0">> THEN [d |-> 0, ok |-> TRUE]
        ELSE IF s = <<>> THEN ParseError
        ELSE LET r == parseGroups(s, 0)
             IN  IF ~r.ok THEN ParseError
                 ELSE [d |-> IF neg THEN 0 - r.d ELSE r.d, ok |-> TRUE]

-----------------------------------------------------------------------------
(* Server construction.                                                    *)

\* The environment leaves COFFEESHOP_LATENCY unset.
Unset == [set |-> FALSE, value |-> <<>>]

EnvSet(str) == [set |-> TRUE, value |-> str]

\* latencyFromEnv(key, fallback): the environment's value when it is set,
\* else the fallback; a value that does not parse panics.
latencyFromEnv(e, fallback) ==
    IF e.set
    THEN LET v == ParseDuration(e.value)
         IN  IF ~v.ok THEN [panic |-> TRUE, d |-> 0]
             ELSE [panic |-> FALSE, d |-> v.d]
    ELSE LET value == ParseDuration(fallback)
         IN  IF ~value.ok THEN [panic |-> TRUE, d |-> 0]
             ELSE [panic |-> FALSE, d |-> value.d]

\* The option WithLatency(latency) applied to server s: the server it leaves
\* and the error it returns.
WithLatency(latency, s) ==
    LET v == ParseDuration(latency)
    IN  IF ~v.ok THEN [s |-> s, err |-> TRUE]
        ELSE [s |-> [s EXCEPT !.Latency = v.d], err |-> FALSE]

\* The loop of New over its options: each is called and its error dropped.
RECURSIVE ApplyOptions(_, _)
ApplyOptions(s, opts) ==
    IF opts = <<>> THEN s
    ELSE ApplyOptions(WithLatency(Head(opts), s).s, Tail(opts))

\* New(addr, store, options...): the server, unless latencyFromEnv panics.
NewServer(e, opts) ==
    LET l == latencyFromEnv(e, DefaultLatency)
    IN  IF l.panic THEN [panic |-> TRUE, srv |-> [Latency |-> 0]]
        ELSE [panic |-> FALSE,
              srv |-> ApplyOptions([Latency |-> l.d], opts)]

-----------------------------------------------------------------------------
(* encoding/json for a Product.  A JSON object is kept as the struct it    *)
(* encodes, whose members are emitted in field order, and the set of the   *)
(* omitempty members left out because they are empty.  A marshalled array  *)
(* keeps the number of its elements and the set of them: the order of the  *)
(* elements of the list response is the order GetAll returned, which       *)
(* nothing below observes.                                                 *)

JSONProduct(p) ==
    [object  |-> p,
     omitted |-> (IF p.Unit = "" THEN {"unit"} ELSE {})
                 \cup (IF p.Quantity = "" THEN {"quantity"} ELSE {})
                 \cup (IF p.Price = "" THEN {"price"} ELSE {})
                 \cup (IF p.Properties = <<>> THEN {"properties"} ELSE {})]

\* json.Marshal(product): compact; never fails for a struct of strings.
Marshal(product) ==
    [data |-> [format |-> "json", text |-> "", n |-> 1,
               items |-> {JSONProduct(product)}],
     err |-> FALSE]

\* json.MarshalIndent(products, "", "  ").
MarshalIndent(products) ==
    [data |-> [format |-> "json-indent", text |-> "", n |-> Len(products),
               items |-> {JSONProduct(products[i]) : i \in 1..Len(products)}],
     err |-> FALSE]

\* The bytes fmt.Fprintln(w, msg) writes: the message and a newline.
TextLine(msg) == [format |-> "text", text |-> msg \o "\n", n |-> 0, items |-> {}]

NoBytes == [format |-> "text", text |-> "", n |-> 0, items |-> {}]

-----------------------------------------------------------------------------
(* http.ResponseWriter, as the fields of a request record w:               *)
(*   hdrCT        the Content-Type entry of w.Header()                     *)
(*   wroteHeader  the status line and header have been committed           *)
(*   status       the committed status code                                *)
(*   sentCT       the Content-Type that was committed with it              *)
(*   body         the chunks written after the header                      *)
(*   writeErr     a Write reached the connection and failed (sticky)       *)

\* w.WriteHeader(code): commits the status and a snapshot of the header; a
\* second call is superfluous and changes nothing.
WriteHeader(w, code) ==
    IF w.wroteHeader THEN w
    ELSE [w EXCEPT !.wroteHeader = TRUE, !.status = code, !.sentCT = w.hdrCT]

\* w.Write(data): commits a 200 header first when none is committed.  fail:
\* the write reaches the connection and the connection refuses it.
Write(w, data, fail) ==
    LET w1 == WriteHeader(w, StatusOK)
    IN  IF fail \/ w1.writeErr THEN [w1 EXCEPT !.writeErr = TRUE]
        ELSE [w1 EXCEPT !.body = Append(@, data)]

\* http.Error(w, msg, code): replaces the Content-Type entry, commits the
\* status, writes the message as one line.
HttpError(w, msg, code) ==
    Write(WriteHeader([w EXCEPT !.hdrCT = TextContentType], code),
          TextLine(msg), FALSE)

\* A write that has to reach the connection fails once the write deadline
\* of the connection has passed; a write that stays in the buffers does not.
WriteOutcomes(w) ==
    IF w.elapsed > WriteTimeout THEN {FALSE, TRUE} ELSE {FALSE}

-----------------------------------------------------------------------------
(* The handlers, as functions of the request record.                       *)

\* Server.GetProducts, first half: what
\* json.MarshalIndent(cs.Store.GetAll(), "", "  ") may return.
MarshalAll(m) == {MarshalIndent(GetAllBody(m, pi)) : pi \in IterationOrders(m)}

\* Server.GetProducts, second half: the response for that result.
ServeGetProducts(w, m, fail) ==
    IF m.err THEN WriteHeader(w, StatusInternalServerError)
    ELSE LET w1 == Write(w, m.data, fail)
         IN  IF w1.writeErr
             THEN HttpError(w1, "internal error", StatusInternalServerError)
             ELSE w1

\* Server.GetProduct, given what Store.GetProduct(productID) returned.
ServeGetProduct(w, got, fail) ==
    LET w0 == [w EXCEPT !.err = got.err]
    IN  IF got.err # ErrNone
        THEN HttpError(w0, "product not found", StatusNotFound)
        ELSE LET m == Marshal(got.p)
             IN  IF m.err
                 THEN HttpError(w0, "internal error", StatusInternalServerError)
                 ELSE LET w1 == Write(w0, m.data, fail)
                      IN  IF w1.writeErr
                          THEN HttpError(w1, "internal error", StatusInternalServerError)
                          ELSE w1

\* The router's default for a path no route matches: http.NotFound.
ServeNotFound(w) == HttpError(w, "404 page not found", StatusNotFound)

\* The router's default for a matched path without a handler for the
\* method: the status and an empty write.
ServeMethodNotAllowed(w) ==
    Write(WriteHeader(w, StatusMethodNotAllowed), NoBytes, FALSE)

\* The routes registered by ListenAndServe, matched on the path's segments:
\* GET /products and GET /products/{productID} (one non-empty segment).
MatchRoute(method, path) ==
    LET list == path = <<"products">>
        item == Len(path) = 2 /\ path[1] = "products" /\ path[2] # ""
    IN  IF ~(list \/ item) THEN "NotFound"
        ELSE IF method # "GET" THEN "MethodNotAllowed"
        ELSE IF list THEN "GetProducts"
        ELSE "GetProduct"

\* chi.URLParam(r, "productID").
URLParam(path) == path[2]

-----------------------------------------------------------------------------
(* State.                                                                  *)

IdleRequest ==
    [pc |-> "Idle", method |-> "", path |-> <<>>,
     elapsed |-> 0, ctxDeadline |-> 0, tDelay |-> 0, slept |-> 0, tHandler |-> 0,
     hdrCT |-> "", wroteHeader |-> FALSE, status |-> 0, sentCT |-> "",
     body |-> <<>>, writeErr |-> FALSE, err |-> ErrNone, delivered |-> "pending"]

IdleTask == [pc |-> "Idle", op |-> "", id |-> "", all |-> <<>>, p |-> ZeroProduct,
             err |-> ErrNone]

\* The latency expressions the environment may hold.
EnvValues ==
    {Unset,
     EnvSet(<<"0", "m", "s">>),
     EnvSet(<<"4", "0", "s">>),
     EnvSet(<<"1", "5", "0", "s">>),
     EnvSet(<<"1", "0">>)}

\* The option lists New may be given.
OptionLists ==
    {<<>>,
     << <<"1", "5", "0", "s">> >>,
     << <<"a", "b", "c">> >>}

\* The requests a client may send.
RequestInputs ==
    {[method |-> "GET", path |-> <<"products">>],
     [method |-> "GET", path |-> <<"products", "1">>],
     [method |-> "GET", path |-> <<"products", "999">>],
     [method |-> "GET", path |-> <<"products", "01">>],
     [method |-> "GET", path |-> <<"coffee">>],
     [method |-> "POST", path |-> <<"products">>]}

\* The identifiers a task may ask the store for.
TaskIds == {"1", "2", "3", "4", "5", "6", "999", "01", "1 ", ""}

StoreFresh ==
    /\ Products = inventory
    /\ mx = [readers |-> 0, writer |-> FALSE]

Init ==
    /\ env \in EnvValues
    /\ options \in OptionLists
    /\ phase = "start"
    /\ srv = [Latency |-> 0]
    /\ delay = 0
    /\ req = [r \in Requests |-> IdleRequest]
    /\ StoreFresh
    /\ task = [t \in Tasks |-> IdleTask]

-----------------------------------------------------------------------------
(* Server lifecycle.                                                       *)

\* New(addr, store, options...), as Run and the callers of the package do.
New ==
    /\ phase = "start"
    /\ LET n == NewServer(env, options)
       IN  IF n.panic
           THEN /\ phase' = "panicked"
                /\ UNCHANGED srv
           ELSE /\ phase' = "constructed"
                /\ srv' = n.srv
    /\ UNCHANGED <<env, options, delay, req, Products, mx, task>>

\* Server.ListenAndServe: builds the router; Delay(cs.Latency) captures the
\* latency of that moment.
ListenAndServe ==
    /\ phase = "constructed"
    /\ phase' = "serving"
    /\ delay' = srv.Latency
    /\ UNCHANGED <<env, options, srv, req, Products, mx, task>>

-----------------------------------------------------------------------------
(* One request through the pipeline.                                       *)

Step(r, w) ==
    /\ req' = [req EXCEPT ![r] = w]
    /\ UNCHANGED <<env, options, phase, srv, delay, Products, mx, task>>

\* The server reads a request's header and arms the write deadline.
Accept(r) ==
    /\ phase = "serving"
    /\ req[r].pc = "Idle"
    /\ \E in \in RequestInputs :
         Step(r, [IdleRequest EXCEPT !.pc = "Timeout", !.method = in.method,
                                     !.path = in.path])

\* middleware.Timeout(120s), on the way in: a context with a deadline.
Timeout(r) ==
    /\ req[r].pc = "Timeout"
    /\ Step(r, [req[r] EXCEPT !.pc = "SetHeader",
                              !.ctxDeadline = req[r].elapsed + TimeoutGuard])

\* middleware.SetHeader("Content-Type", "application/json; charset=utf-8").
SetHeader(r) ==
    /\ req[r].pc = "SetHeader"
    /\ Step(r, [req[r] EXCEPT !.pc = "Delay", !.hdrCT = JSONContentType])

\* A sleep that may return before d has passed: not what the code does.
SleepShort(d) == IF d <= 0 THEN {0} ELSE {d - 1, d}

\* time.Sleep(d): returns at once for d <= 0, else after at least d.
Sleep(d) ==
    IF d <= 0 THEN {0} ELSE {d + over : over \in 0..MaxOverrun}

\* Delay(d): sleeps, then calls the next handler (the router).
Delay(r) ==
    /\ req[r].pc = "Delay"
    /\ \E pause \in Sleep(delay) :
         Step(r, [req[r] EXCEPT !.pc = "Route", !.tDelay = req[r].elapsed,
                                !.slept = delay,
                                !.elapsed = req[r].elapsed + pause])

\* The router: finds the handler of the method and path.
RouteHTTP(r) ==
    /\ req[r].pc = "Route"
    /\ Step(r, [req[r] EXCEPT !.pc = MatchRoute(req[r].method, req[r].path),
                              !.tHandler = req[r].elapsed])

\* Server.GetProducts: Store.GetAll under the read lock, then the response.
GetProducts(r) ==
    /\ req[r].pc = "GetProducts"
    /\ ~mx.writer
    /\ \E m \in MarshalAll(Products), fail \in WriteOutcomes(req[r]) :
         req' = [req EXCEPT ![r] =
                   [ServeGetProducts(req[r], m, fail) EXCEPT !.pc = "TimeoutDefer"]]
    /\ UNCHANGED <<env, options, phase, srv, delay, Products, mx, task>>

\* A GetProduct handler whose query removes the product it found from the
\* store: not what the code does.
GetProductConsuming(r) ==
    /\ req[r].pc = "GetProduct"
    /\ ~mx.writer
    /\ req' = [req EXCEPT ![r] =
                 [ServeGetProduct(req[r],
                                  GetProductBody(Products, URLParam(req[r].path)),
                                  FALSE)
                    EXCEPT !.pc = "TimeoutDefer"]]
    /\ Products' = [id \in DOMAIN Products \ {URLParam(req[r].path)} |-> Products[id]]
    /\ UNCHANGED <<env, options, phase, srv, delay, mx, task>>

\* Server.GetProduct: Store.GetProduct under the read lock, then the response.
GetProduct(r) ==
    /\ req[r].pc = "GetProduct"
    /\ ~mx.writer
    /\ \E fail \in WriteOutcomes(req[r]) :
         req' = [req EXCEPT ![r] =
                   [ServeGetProduct(req[r],
                                    GetProductBody(Products, URLParam(req[r].path)),
                                    fail)
                      EXCEPT !.pc = "TimeoutDefer"]]
    /\ UNCHANGED <<env, options, phase, srv, delay, Products, mx, task>>

NotFound(r) ==
    /\ req[r].pc = "NotFound"
    /\ Step(r, [ServeNotFound(req[r]) EXCEPT !.pc = "TimeoutDefer"])

MethodNotAllowed(r) ==
    /\ req[r].pc = "MethodNotAllowed"
    /\ Step(r, [ServeMethodNotAllowed(req[r]) EXCEPT !.pc = "TimeoutDefer"])

\* middleware.Timeout, on the way out: when the context's deadline has
\* passed, WriteHeader(504).
TimeoutDefer(r) ==
    /\ req[r].pc = "TimeoutDefer"
    /\ Step(r, [(IF req[r].elapsed >= req[r].ctxDeadline
                 THEN WriteHeader(req[r], StatusGatewayTimeout)
                 ELSE req[r])
                  EXCEPT !.pc = "Finish"])

\* net/http finishes the request: the buffered response is flushed to the
\* connection, which refuses it once its write deadline has passed.
FinishRequest(r) ==
    /\ req[r].pc = "Finish"
    /\ Step(r, [req[r] EXCEPT !.pc = "Done",
                  !.delivered = IF req[r].elapsed > WriteTimeout \/ req[r].writeErr
                                THEN "no" ELSE "yes"])

\* The connection is closed or reused for the next request.
Close(r) ==
    /\ req[r].pc = "Done"
    /\ Step(r, IdleRequest)

Next ==
    \/ New
    \/ ListenAndServe
    \/ \E r \in Requests :
         \/ Accept(r)
         \/ Timeout(r)
         \/ SetHeader(r)
         \/ Delay(r)
         \/ RouteHTTP(r)
         \/ GetProducts(r)
         \/ GetProduct(r)
         \/ NotFound(r)
         \/ MethodNotAllowed(r)
         \/ TimeoutDefer(r)
         \/ FinishRequest(r)
         \/ Close(r)

Spec == Init /\ [][Next]_vars

-----------------------------------------------------------------------------
(* The store alone: tasks that call GetAll and GetProduct concurrently.    *)
(* mx.readers counts the holders of the read lock; mx.writer says whether  *)
(* a writer holds or awaits the lock (no code path of the package calls    *)
(* Lock, so nothing sets it).                                              *)

\* The lock taken exclusively, as ms.mx.Lock() would: not what the code does.
CanLock(m) == ~m.writer /\ m.readers = 0

\* ms.mx.RLock() proceeds unless a writer holds or awaits the lock.
CanRLock(m) == ~m.writer

InitStore ==
    /\ env = Unset
    /\ options = <<>>
    /\ phase = "start"
    /\ srv = [Latency |-> 0]
    /\ delay = 0
    /\ req = [r \in Requests |-> IdleRequest]
    /\ StoreFresh
    /\ task = [t \in Tasks |-> IdleTask]

StoreStep(t, tk) ==
    /\ task' = [task EXCEPT ![t] = tk]
    /\ UNCHANGED <<env, options, phase, srv, delay, req>>

\* A task calls ms.GetAll().
CallGetAll(t) ==
    /\ task[t].pc = "Idle"
    /\ StoreStep(t, [IdleTask EXCEPT !.pc = "RLock", !.op = "GetAll"])
    /\ UNCHANGED <<Products, mx>>

\* A task calls ms.GetProduct(id).
CallGetProduct(t) ==
    /\ task[t].pc = "Idle"
    /\ \E id \in TaskIds :
         StoreStep(t, [IdleTask EXCEPT !.pc = "RLock", !.op = "GetProduct", !.id = id])
    /\ UNCHANGED <<Products, mx>>

\* ms.mx.RLock(), the first statement of both methods.
RLock(t) ==
    /\ task[t].pc = "RLock"
    /\ CanRLock(mx)
    /\ mx' = [mx EXCEPT !.readers = @ + 1]
    /\ StoreStep(t, [task[t] EXCEPT !.pc = "Locked"])
    /\ UNCHANGED Products

\* ms.mx.RUnlock().
RUnlock(m) == [m EXCEPT !.readers = @ - 1]

\* MemoryStore.GetAll after RLock: the return value is computed under the
\* lock, the deferred RUnlock runs, the method returns.
GetAll(t) ==
    /\ task[t].pc = "Locked"
    /\ task[t].op = "GetAll"
    /\ \E pi \in IterationOrders(Products) :
         StoreStep(t, [task[t] EXCEPT !.pc = "Returned",
                                      !.all = GetAllBody(Products, pi)])
    /\ mx' = RUnlock(mx)
    /\ UNCHANGED Products

\* MemoryStore.GetProduct after RLock: likewise, on both of its returns.
MemoryStoreGetProduct(t) ==
    /\ task[t].pc = "Locked"
    /\ task[t].op = "GetProduct"
    /\ LET got == GetProductBody(Products, task[t].id)
       IN  StoreStep(t, [task[t] EXCEPT !.pc = "Returned", !.p = got.p, !.err = got.err])
    /\ mx' = RUnlock(mx)
    /\ UNCHANGED Products

\* The caller is done with the result.
Return(t) ==
    /\ task[t].pc = "Returned"
    /\ StoreStep(t, IdleTask)
    /\ UNCHANGED <<Products, mx>>

NextStore ==
    \E t \in Tasks :
      \/ CallGetAll(t)
      \/ CallGetProduct(t)
      \/ RLock(t)
      \/ GetAll(t)
      \/ MemoryStoreGetProduct(t)
      \/ Return(t)

SpecStore == InitStore /\ [][NextStore]_vars

-----------------------------------------------------------------------------
(* Properties.                                                             *)

\* The handler of request r has returned.
Handled(r) == req[r].pc \in {"TimeoutDefer", "Finish", "Done"}

\* Request r was routed to handler h.
RoutedTo(r, h) == req[r].pc # "Idle" /\ MatchRoute(req[r].method, req[r].path) = h

\* The text body http.Error leaves for message line.
ErrorBody(line) == <<[format |-> "text", text |-> line, n |-> 0, items |-> {}]>>

\* C1: every response the server sends, whatever the route and the status,
\* carries the Content-Type "application/json; charset=utf-8".
C1_ContentTypeIsJSON ==
    \A r \in Requests :
      req[r].delivered = "yes" => req[r].sentCT = "application/json; charset=utf-8"

\* C2: with a latency above the 120 s guard, a request is finished by the
\* guard: it ends no later than the guard's bound, with a timeout status,
\* and no 200 payload is written for it.
C2_GuardAbortsLongDelay ==
    \A r \in Requests :
      (delay > TimeoutGuard /\ req[r].pc = "Done")
        => /\ req[r].elapsed <= TimeoutGuard
           /\ req[r].status = StatusGatewayTimeout
           /\ req[r].body = <<>>

\* The latency given by the environment or by an option does not parse.
InvalidLatency ==
    \/ env.set /\ ~ParseDuration(env.value).ok
    \/ \E i \in 1..Len(options) : ~ParseDuration(options[i]).ok

\* C3: an invalid latency expression, from the environment or from the
\* WithLatency option, is fatal at construction: the server never serves.
C3_InvalidLatencyIsFatal ==
    InvalidLatency => phase \notin {"constructed", "serving"}

\* C4: GET /products/{id} with an id that is no key of the store: the store
\* reports "product not found", and the handler answers 404 with the line
\* "product not found", never 200 and never product JSON.
C4_UnknownIdIs404 ==
    \A r \in Requests :
      (Handled(r) /\ RoutedTo(r, "GetProduct") /\ URLParam(req[r].path) \notin DOMAIN inventory)
        => /\ req[r].err = "product not found"
           /\ req[r].wroteHeader
           /\ req[r].status = 404
           /\ req[r].body = ErrorBody("product not found\n")

\* A request for /products/999 has been answered.
C4_Witness ==
    \E r \in Requests :
      /\ req[r].pc = "Done"
      /\ req[r].path = <<"products", "999">>
      /\ req[r].status = 404

\* C5: GetProduct(id) for a seeded id returns, without error, the product
\* stored under id, whose ID is id; any other id, however close to a seeded
\* one, is not resolved to a product.
C5_GetProductExact ==
    \A t \in Tasks :
      (task[t].pc = "Returned" /\ task[t].op = "GetProduct")
        => IF task[t].id \in DOMAIN inventory
           THEN /\ task[t].err = "nil"
                /\ task[t].p = inventory[task[t].id]
                /\ task[t].p.ID = task[t].id
           ELSE /\ task[t].err # "nil"
                /\ \A id \in DOMAIN inventory : task[t].p # inventory[id]

\* One task got product 6 while another was refused the near miss "01".
C5_Witness ==
    \E t, u \in Tasks :
      /\ task[t].pc = "Returned" /\ task[t].op = "GetProduct"
      /\ task[t].id = "6" /\ task[t].p.ID = "6"
      /\ task[u].pc = "Returned" /\ task[u].op = "GetProduct"
      /\ task[u].id = "01" /\ task[u].err # "nil"

\* C6: every GetAll returns as many products as were seeded (6), each seeded
\* product exactly once, in any order.
C6_GetAllComplete ==
    \A t \in Tasks :
      (task[t].pc = "Returned" /\ task[t].op = "GetAll")
        => /\ Len(task[t].all) = 6
           /\ Len(task[t].all) = Cardinality(DOMAIN inventory)
           /\ \A id \in DOMAIN inventory :
                Cardinality({i \in 1..Len(task[t].all) : task[t].all[i] = inventory[id]}) = 1

\* Two tasks hold results of GetAll that differ in order.
C6_Witness ==
    \E t, u \in Tasks :
      /\ task[t].pc = "Returned" /\ task[t].op = "GetAll"
      /\ task[u].pc = "Returned" /\ task[u].op = "GetAll"
      /\ task[t].all[1].ID = "6"
      /\ task[u].all[1].ID = "3"

\* C7: every request, routed or not, stays in Delay for at least the
\* server's latency before the router and the handler run, and the latency
\* is the same for all requests.
C7_DelayBeforeHandler ==
    \A r \in Requests :
      (req[r].pc \notin {"Idle", "Timeout", "SetHeader", "Delay"})
        => /\ req[r].slept = srv.Latency
           /\ req[r].elapsed - req[r].tDelay >= srv.Latency
           /\ (req[r].pc # "Route" => req[r].tHandler - req[r].tDelay >= srv.Latency)

\* With a latency of 40 s an unrouted and a routed request have both been
\* served, the routed one after an overrun of its sleep.
C7_Witness ==
    \E r, q \in Requests :
      /\ srv.Latency = 40000
      /\ req[r].pc = "Done" /\ RoutedTo(r, "NotFound")
      /\ req[q].pc = "Done" /\ RoutedTo(q, "GetProducts")
      /\ req[q].elapsed > req[q].tDelay + 40000

\* C8: the store keeps the seed mapping in every state the requests reach.
C8_StoreNeverChanges ==
    Products = inventory

\* Two requests are done, a found and a not-found one, the latter never
\* delivered.
C8_Witness ==
    \E r, q \in Requests :
      /\ req[r].pc = "Done" /\ RoutedTo(r, "GetProduct") /\ req[r].status = 200
      /\ req[q].pc = "Done" /\ RoutedTo(q, "GetProduct") /\ req[q].status = 404
      /\ req[q].delivered = "no"

\* C9: every accepted request ends with a complete response received by the
\* client, whatever the latency.
C9_EveryRequestAnswered ==
    \A r \in Requests :
      req[r].pc = "Done" => req[r].wroteHeader /\ req[r].delivered = "yes"

\* The tasks that hold the read lock.
Holders == {t \in Tasks : task[t].pc = "Locked"}

\* C10: under the read-only workload no reader waits for the lock, readers
\* hold it together, every call has released it when it returns, and some
\* step is always possible.
C10_ReadLockNeverBlocks ==
    /\ \A t \in Tasks : task[t].pc = "RLock" => ENABLED RLock(t)
    /\ mx.readers = Cardinality(Holders)
    /\ ENABLED NextStore

\* All tasks hold the read lock at once.
C10_Witness ==
    /\ Cardinality(Holders) = NumTasks
    /\ mx.readers >= 2

=============================================================================
